---- MODULE Spec2Model ----
(***************************************************************************)
(* A model of utils/eval_utils.py: the voxel-level and lesion-level        *)
(* similarity metrics between two binary 3D masks.                         *)
(*                                                                         *)
(* A mask (a numpy array after .astype(bool)) is a record                  *)
(*   [shape |-> <<X, Y, Z>>, fg |-> the set of its True voxels],           *)
(* a voxel being <<x, y, z>> with 0-based coordinates.  A label image (the *)
(* result of cc3d.connected_components) is [shape, lab], lab a function    *)
(* from the voxels to the labels 0..K.  Python floats are modelled as      *)
(* exact rationals [num, den] in lowest terms (the values that occur are   *)
(* quotients of small integers, which IEEE division rounds consistently).  *)
(* The aliases np.bool and np.float are taken to exist (NumPy before 1.24), *)
(* as the module assumes; voxel_size is a NumPy scalar.                     *)
(***************************************************************************)
EXTENDS Integers, FiniteSets, Sequences

\* ------------------------------------------------------------------ bounds

\* The most foreground voxels an input mask holds.
MaxFg == 3

\* The shapes input masks are drawn from: a 2x2x2 cube (face, edge and corner
\* neighbours), a 3-voxel row (two voxels that are not neighbours; its shape
\* does not broadcast against the others) and a 2-voxel row (which broadcasts
\* against the cube).
Shapes == {<<2, 2, 2>>, <<3, 1, 1>>, <<2, 1, 1>>}

\* ------------------------------------------------------------------ numbers

Abs(n) == IF n < 0 THEN -n ELSE n

RECURSIVE GCD(_, _)
GCD(a, b) == IF b = 0 THEN a ELSE GCD(b, a % b)

\* The rational n/d (d /= 0) in lowest terms with a positive denominator.
Rat(n, d) ==
    LET g == GCD(Abs(n), Abs(d))
        s == IF d < 0 THEN -1 ELSE 1
    IN  [num |-> (s * n) \div g, den |-> (s * d) \div g]

RInt(n) == Rat(n, 1)
RAdd(a, b) == Rat(a.num * b.den + b.num * a.den, a.den * b.den)
RSub(a, b) == Rat(a.num * b.den - b.num * a.den, a.den * b.den)
RMul(a, b) == Rat(a.num * b.num, a.den * b.den)
RDiv(a, b) == Rat(a.num * b.den, a.den * b.num)
RAbs(a) == [num |-> Abs(a.num), den |-> a.den]

\* numpy's .astype('int16') of a non-negative integer: two's complement wrap.
Int16Bits == 16
AsInt16(n) ==
    LET m == n % (2 ^ Int16Bits)
    IN  IF m >= 2 ^ (Int16Bits - 1) THEN m - 2 ^ Int16Bits ELSE m

\* ------------------------------------------------------------------ arrays

Voxels(shape) ==
    {<<x, y, z>> : x \in 0 .. shape[1] - 1, y \in 0 .. shape[2] - 1,
                   z \in 0 .. shape[3] - 1}

\* The boolean arrays of a shape with at most MaxFg True voxels.
Masks(shape) ==
    {[shape |-> shape, fg |-> f] :
        f \in {s \in SUBSET Voxels(shape) : Cardinality(s) <= MaxFg}}

\* ndarray.sum() of a boolean array.
Sum(im) == Cardinality(im.fg)

\* ndarray.any() of a boolean array.
AnyTrue(im) == im.fg /= {}

\* numpy broadcasting of two 3D shapes: per axis the lengths are equal or one
\* of them is 1.
Broadcastable(s1, s2) ==
    \A i \in 1 .. 3 : s1[i] = s2[i] \/ s1[i] = 1 \/ s2[i] = 1

BroadcastShape(s1, s2) ==
    [i \in 1 .. 3 |-> IF s1[i] = 1 THEN s2[i] ELSE s1[i]]

\* The element of array im that position v of a broadcast result reads: an axis
\* of length 1 is repeated.
At(im, v) ==
    <<IF im.shape[1] = 1 THEN 0 ELSE v[1],
      IF im.shape[2] = 1 THEN 0 ELSE v[2],
      IF im.shape[3] = 1 THEN 0 ELSE v[3]>> \in im.fg

\* np.logical_and(a, b) of two arrays whose shapes broadcast: elementwise when
\* the shapes are equal, over the broadcast shape otherwise.
LogicalAnd(a, b) ==
    IF a.shape = b.shape
    THEN [shape |-> a.shape, fg |-> a.fg \cap b.fg]
    ELSE LET shp == BroadcastShape(a.shape, b.shape)
         IN  [shape |-> shp, fg |-> {v \in Voxels(shp) : At(a, v) /\ At(b, v)}]

\* ------------------------------------------------------------------ cc3d

\* Two distinct voxels are neighbours under connectivity 6 (they share a face),
\* 18 (a face or an edge) or 26 (a face, an edge or a corner).
Adjacent(u, v, connectivity) ==
    LET dx == Abs(u[1] - v[1])
        dy == Abs(u[2] - v[2])
        dz == Abs(u[3] - v[3])
        n == dx + dy + dz
    IN  /\ dx <= 1 /\ dy <= 1 /\ dz <= 1
        /\ n >= 1
        /\ CASE connectivity = 6 -> n = 1
             [] connectivity = 18 -> n <= 2
             [] connectivity = 26 -> n <= 3

\* The voxels of fg reachable from the set S through neighbours.
RECURSIVE Grow(_, _, _)
Grow(S, fg, connectivity) ==
    LET N == {v \in fg \ S : \E u \in S : Adjacent(u, v, connectivity)}
    IN  IF N = {} THEN S ELSE Grow(S \cup N, fg, connectivity)

\* A voxel's position in the raster scan of an array of the shape.
Index(shape, v) == (v[1] * shape[2] + v[2]) * shape[3] + v[3]

\* The first voxel of a non-empty set in raster order.
First(shape, S) ==
    CHOOSE v \in S : \A w \in S : Index(shape, v) <= Index(shape, w)

\* The labelling pass: the component of the first unlabelled foreground voxel
\* takes the next free label, until no foreground voxel is left.
RECURSIVE LabelFrom(_, _, _, _, _)
LabelFrom(rest, shape, connectivity, next, lab) ==
    IF rest = {} THEN lab
    ELSE LET comp == Grow({First(shape, rest)}, rest, connectivity)
         IN  LabelFrom(rest \ comp, shape, connectivity, next + 1,
                       [v \in DOMAIN lab |-> IF v \in comp THEN next ELSE lab[v]])

\* cc3d.connected_components(im, connectivity=connectivity): the label image,
\* 0 on the background and 1..K on the K components.
ConnectedComponents(im, connectivity) ==
    [shape |-> im.shape,
     lab |-> LabelFrom(im.fg, im.shape, connectivity, 1,
                       [v \in Voxels(im.shape) |-> 0])]

\* ndarray.max() of a label image.
MaxLabel(labeled) ==
    CHOOSE m \in {labeled.lab[v] : v \in DOMAIN labeled.lab} :
        \A v \in DOMAIN labeled.lab : labeled.lab[v] <= m

\* labeled == cluster_label: the boolean image of one cluster.
EqualsLabel(labeled, cluster_label) ==
    [shape |-> labeled.shape,
     fg |-> {v \in DOMAIN labeled.lab : labeled.lab[v] = cluster_label}]

\* ------------------------------------------------------------------ results

\* What a call leaves behind: the exception it raised ("none" when it returned),
\* the value it returned (NoValue when it raised), whether it warned, and the
\* lesion counts compute_lesion_f1_score held when it ended.
NoValue == [num |-> 0, den |-> 0]

Result(exc, value, warned, tp, fp, fn) ==
    [exc |-> exc, value |-> value, warned |-> warned,
     tp |-> tp, fp |-> fp, fn |-> fn]

Return(value) == Result("none", value, FALSE, 0, 0, 0)
Raise(exc) == Result(exc, NoValue, FALSE, 0, 0, 0)

\* ------------------------------------------------------------------ compute_dice

\* A faulty compute_dice: the denominator is twice the first mask's sum.
compute_dice_first_sum(im1, im2, empty_value) ==
    IF im1.shape /= im2.shape THEN Raise("ValueError")
    ELSE LET im_sum == Sum(im1) + Sum(im2)
             intersection == LogicalAnd(im1, im2)
         IN  IF im_sum = 0 THEN Return(empty_value)
             ELSE IF Sum(im1) = 0 THEN Raise("ZeroDivisionError")
             ELSE Return(RDiv(RMul(RInt(2), RInt(Sum(intersection))),
                              RInt(2 * Sum(im1))))

compute_dice(im1, im2, empty_value) ==
    IF im1.shape /= im2.shape THEN Raise("ValueError")
    ELSE LET im_sum == Sum(im1) + Sum(im2)
             intersection == LogicalAnd(im1, im2)
         IN  IF im_sum = 0 THEN Return(empty_value)
             ELSE Return(RDiv(RMul(RInt(2), RInt(Sum(intersection))),
                              RInt(im_sum)))

\* ------------------------------------------------------------------ compute_absolute_volume_difference

\* A faulty compute_absolute_volume_difference: the difference is not made
\* absolute.
compute_volume_difference_signed(im1, im2, voxel_size) ==
    LET ground_truth_volume == RMul(RInt(Sum(im1)), voxel_size)
        prediction_volume == RMul(RInt(Sum(im2)), voxel_size)
    IN  Result("none", RSub(ground_truth_volume, prediction_volume),
               im1.shape /= im2.shape, 0, 0, 0)

compute_absolute_volume_difference(im1, im2, voxel_size) ==
    LET ground_truth_volume == RMul(RInt(Sum(im1)), voxel_size)
        prediction_volume == RMul(RInt(Sum(im2)), voxel_size)
        abs_vol_diff == RAbs(RSub(ground_truth_volume, prediction_volume))
    IN  Result("none", abs_vol_diff, im1.shape /= im2.shape, 0, 0, 0)

\* ------------------------------------------------------------------ compute_number_of_clusters

DefaultConnectivity == 26

\* A faulty compute_number_of_clusters: it counts the distinct labels, the
\* background's 0 among them.
compute_number_of_labels(im, connectivity) ==
    LET labeled_im == ConnectedComponents(im, connectivity)
    IN  AsInt16(Cardinality({labeled_im.lab[v] : v \in DOMAIN labeled_im.lab}))

compute_number_of_clusters(im, connectivity) ==
    LET labeled_im == ConnectedComponents(im, connectivity)
    IN  AsInt16(MaxLabel(labeled_im))

\* ------------------------------------------------------------------ compute_absolute_lesion_difference

compute_absolute_lesion_difference(gt, pred) ==
    LET ground_truth_numb_lesion == compute_number_of_clusters(gt, DefaultConnectivity)
        prediction_numb_lesion == compute_number_of_clusters(pred, DefaultConnectivity)
        \* int16 - int16 and abs of an int16 stay in int16
        difference == AsInt16(ground_truth_numb_lesion - prediction_numb_lesion)
    IN  Return(RInt(AsInt16(Abs(difference))))

\* ------------------------------------------------------------------ compute_lesion_f1_score

\* A faulty ground-truth loop: a missed cluster is not counted as a false
\* negative.
RECURSIVE GroundTruthLoopNoFn(_, _, _, _, _, _)
GroundTruthLoopNoFn(cluster_label, stop, labeled_ground_truth, intersection, tp, fn) ==
    IF cluster_label >= stop
    THEN [tp |-> tp, fn |-> fn]
    ELSE LET binary_cluster_image == EqualsLabel(labeled_ground_truth, cluster_label)
         IN  IF AnyTrue(LogicalAnd(binary_cluster_image, intersection))
             THEN GroundTruthLoopNoFn(cluster_label + 1, stop, labeled_ground_truth,
                                      intersection, tp + 1, fn)
             ELSE GroundTruthLoopNoFn(cluster_label + 1, stop, labeled_ground_truth,
                                      intersection, tp, fn)

\* A faulty ground-truth loop: the range ends one label early.
RECURSIVE GroundTruthLoopOffByOne(_, _, _, _, _, _)
GroundTruthLoopOffByOne(cluster_label, stop, labeled_ground_truth, intersection, tp, fn) ==
    IF cluster_label >= stop - 1
    THEN [tp |-> tp, fn |-> fn]
    ELSE LET binary_cluster_image == EqualsLabel(labeled_ground_truth, cluster_label)
         IN  IF AnyTrue(LogicalAnd(binary_cluster_image, intersection))
             THEN GroundTruthLoopOffByOne(cluster_label + 1, stop,
                                          labeled_ground_truth, intersection,
                                          tp + 1, fn)
             ELSE GroundTruthLoopOffByOne(cluster_label + 1, stop,
                                          labeled_ground_truth, intersection,
                                          tp, fn + 1)

\* The loop over the ground-truth clusters, for cluster_label in
\* range(cluster_label, stop): a cluster with a voxel in the intersection is a
\* true positive, any other a false negative.
RECURSIVE GroundTruthLoop(_, _, _, _, _, _)
GroundTruthLoop(cluster_label, stop, labeled_ground_truth, intersection, tp, fn) ==
    IF cluster_label >= stop
    THEN [tp |-> tp, fn |-> fn]
    ELSE LET binary_cluster_image == EqualsLabel(labeled_ground_truth, cluster_label)
         IN  IF AnyTrue(LogicalAnd(binary_cluster_image, intersection))
             THEN GroundTruthLoop(cluster_label + 1, stop, labeled_ground_truth,
                                  intersection, tp + 1, fn)
             ELSE GroundTruthLoop(cluster_label + 1, stop, labeled_ground_truth,
                                  intersection, tp, fn + 1)

\* A faulty prediction loop: the test lacks its negation, so the clusters that
\* overlap the ground truth are the ones counted.
RECURSIVE PredictionLoopNoNot(_, _, _, _, _)
PredictionLoopNoNot(cluster_label, stop, labeled_prediction, gt, fp) ==
    IF cluster_label >= stop
    THEN fp
    ELSE LET binary_cluster_image == EqualsLabel(labeled_prediction, cluster_label)
         IN  IF AnyTrue(LogicalAnd(binary_cluster_image, gt))
             THEN PredictionLoopNoNot(cluster_label + 1, stop, labeled_prediction,
                                      gt, fp + 1)
             ELSE PredictionLoopNoNot(cluster_label + 1, stop, labeled_prediction,
                                      gt, fp)

\* The loop over the prediction clusters, for cluster_label in
\* range(cluster_label, stop): a cluster with no voxel in the ground truth is a
\* false positive.
RECURSIVE PredictionLoop(_, _, _, _, _)
PredictionLoop(cluster_label, stop, labeled_prediction, gt, fp) ==
    IF cluster_label >= stop
    THEN fp
    ELSE LET binary_cluster_image == EqualsLabel(labeled_prediction, cluster_label)
         IN  IF ~AnyTrue(LogicalAnd(binary_cluster_image, gt))
             THEN PredictionLoop(cluster_label + 1, stop, labeled_prediction, gt,
                                 fp + 1)
             ELSE PredictionLoop(cluster_label + 1, stop, labeled_prediction, gt,
                                 fp)

\* A faulty end of the function: the ratio is tp / ((tp + fp + fn) / 2).
ScoreWrongRatio(gt, tp, fp, fn, empty_value) ==
    IF tp + fp + fn = 0
    THEN IF compute_number_of_clusters(gt, DefaultConnectivity) = 0
         THEN Result("none", empty_value, FALSE, tp, fp, fn)
         ELSE Result("UnboundLocalError", NoValue, FALSE, tp, fp, fn)
    ELSE Result("none",
                RDiv(RInt(tp), RDiv(RInt(tp + fp + fn), RInt(2))),
                FALSE, tp, fp, fn)

\* A faulty end of the function: the empty case returns 1.0 whatever the
\* caller's empty_value.
ScoreFixedEmptyValue(gt, tp, fp, fn, empty_value) ==
    IF tp + fp + fn = 0
    THEN IF compute_number_of_clusters(gt, DefaultConnectivity) = 0
         THEN Result("none", RInt(1), FALSE, tp, fp, fn)
         ELSE Result("UnboundLocalError", NoValue, FALSE, tp, fp, fn)
    ELSE Result("none",
                RDiv(RInt(tp), RAdd(RInt(tp), RDiv(RInt(fp + fn), RInt(2)))),
                FALSE, tp, fp, fn)

\* The end of the function: the empty case, the ratio, and the path on which
\* f1_score is never assigned and the return statement raises.
Score(gt, tp, fp, fn, empty_value) ==
    IF tp + fp + fn = 0
    THEN IF compute_number_of_clusters(gt, DefaultConnectivity) = 0
         THEN Result("none", empty_value, FALSE, tp, fp, fn)
         ELSE Result("UnboundLocalError", NoValue, FALSE, tp, fp, fn)
    ELSE Result("none",
                RDiv(RInt(tp), RAdd(RInt(tp), RDiv(RInt(fp + fn), RInt(2)))),
                FALSE, tp, fp, fn)

compute_lesion_f1_score(gt, pred, empty_value, connectivity) ==
    IF ~Broadcastable(gt.shape, pred.shape)
    THEN Raise("ValueError")
    ELSE LET intersection == LogicalAnd(gt, pred)
             labeled_ground_truth == ConnectedComponents(gt, connectivity)
             g == IF MaxLabel(labeled_ground_truth) > 0
                  THEN GroundTruthLoop(1, MaxLabel(labeled_ground_truth) + 1,
                                       labeled_ground_truth, intersection, 0, 0)
                  ELSE [tp |-> 0, fn |-> 0]
             labeled_prediction == ConnectedComponents(pred, connectivity)
             fp == IF MaxLabel(labeled_prediction) > 0
                   THEN PredictionLoop(1, MaxLabel(labeled_prediction) + 1,
                                       labeled_prediction, gt, 0)
                   ELSE 0
         IN  Score(gt, g.tp, fp, g.fn, empty_value)

\* ------------------------------------------------------------------ the calls

\* The scalar arguments callers pass: the connectivities cc3d accepts for a 3D
\* image, the empty_value (1.0 by default) and the voxel size in ml.
Connectivities == {6, 18, 26}
DefaultEmptyValue == RInt(1)
EmptyValues == {DefaultEmptyValue, RInt(0)}
VoxelSizes == {RInt(1), Rat(1, 2)}

NoCall == [func |-> "none", connectivity |-> 0, empty_value |-> NoValue,
           voxel_size |-> NoValue]

VARIABLES
    ground_truth,   \* the first mask of the pair
    prediction,     \* the second mask of the pair
    pc,             \* "start" before the call, "done" after it
    call,           \* the function called and its scalar arguments
    res,            \* what the call left behind (a Result)
    scan            \* the labelling scan of a row image (SpecRow only)

vars == <<ground_truth, prediction, pc, call, res, scan>>

NoScan == [len |-> 0, period |-> 0, x |-> 0, last |-> FALSE, N |-> 0]

Init ==
    /\ \E s1 \in Shapes, s2 \in Shapes :
         /\ ground_truth \in Masks(s1)
         /\ prediction \in Masks(s2)
    /\ pc = "start"
    /\ call = NoCall
    /\ res = Raise("none")
    /\ scan = NoScan

Done(c, r) ==
    /\ pc' = "done"
    /\ call' = c
    /\ res' = r
    /\ UNCHANGED <<ground_truth, prediction, scan>>

ComputeDice ==
    /\ pc = "start"
    /\ \E ev \in EmptyValues :
         Done([NoCall EXCEPT !.func = "compute_dice", !.empty_value = ev],
              compute_dice(ground_truth, prediction, ev))

ComputeAbsoluteVolumeDifference ==
    /\ pc = "start"
    /\ \E vs \in VoxelSizes :
         Done([NoCall EXCEPT !.func = "compute_absolute_volume_difference",
                             !.voxel_size = vs],
              compute_absolute_volume_difference(ground_truth, prediction, vs))

ComputeAbsoluteLesionDifference ==
    /\ pc = "start"
    /\ Done([NoCall EXCEPT !.func = "compute_absolute_lesion_difference"],
            compute_absolute_lesion_difference(ground_truth, prediction))

ComputeNumberOfClusters ==
    /\ pc = "start"
    /\ \E c \in Connectivities :
         Done([NoCall EXCEPT !.func = "compute_number_of_clusters",
                             !.connectivity = c],
              Return(RInt(compute_number_of_clusters(ground_truth, c))))

ComputeLesionF1Score ==
    /\ pc = "start"
    /\ \E c \in Connectivities, ev \in EmptyValues :
         Done([NoCall EXCEPT !.func = "compute_lesion_f1_score",
                             !.connectivity = c, !.empty_value = ev],
              compute_lesion_f1_score(ground_truth, prediction, ev, c))

Next ==
    \/ ComputeDice
    \/ ComputeAbsoluteVolumeDifference
    \/ ComputeAbsoluteLesionDifference
    \/ ComputeNumberOfClusters
    \/ ComputeLesionF1Score

Spec == Init /\ [][Next]_vars

\* ------------------------------------------------------------------ long rows

\* compute_number_of_clusters on a long one-row image, shape (len, 1, 1), whose
\* voxel x is foreground when x is a multiple of period: the image is held by
\* its two parameters and cc3d's labelling is a raster scan, one voxel a step.
\* In a row two voxels are neighbours, under every connectivity, exactly when
\* their x differ by 1, so a foreground voxel opens a new label exactly when
\* the voxel before it is background.
MaxRowLen == 65535
RowLens == {3, MaxRowLen}
RowPeriods == {2, 3}

RowVoxel(period, x) == x % period = 0

\* The number of maximal runs of foreground voxels of the row: one for every
\* multiple of period below len.
RowClusters(len, period) == (len + period - 1) \div period

InitRow ==
    /\ ground_truth = [shape |-> <<1, 1, 1>>, fg |-> {}]
    /\ prediction = [shape |-> <<1, 1, 1>>, fg |-> {}]
    /\ pc = "scan"
    /\ \E c \in Connectivities :
         call = [NoCall EXCEPT !.func = "compute_number_of_clusters",
                               !.connectivity = c]
    /\ res = Raise("none")
    /\ \E len \in RowLens, period \in RowPeriods :
         scan = [len |-> len, period |-> period, x |-> 0, last |-> FALSE, N |-> 0]

\* cc3d.connected_components, one voxel of the scan.
ScanVoxel ==
    /\ pc = "scan"
    /\ scan.x < scan.len
    /\ LET here == RowVoxel(scan.period, scan.x)
       IN  scan' = [scan EXCEPT !.x = @ + 1,
                                !.last = here,
                                !.N = IF here /\ ~scan.last THEN @ + 1 ELSE @]
    /\ UNCHANGED <<ground_truth, prediction, pc, call, res>>

\* labeled_im.max().astype('int16') and the return.
FinishScan ==
    /\ pc = "scan"
    /\ scan.x = scan.len
    /\ pc' = "done"
    /\ res' = Return(RInt(AsInt16(scan.N)))
    /\ UNCHANGED <<ground_truth, prediction, call, scan>>

NextRow == ScanVoxel \/ FinishScan

SpecRow == InitRow /\ [][NextRow]_vars

\* ------------------------------------------------------------------ clusters, stated apart from the labelling

\* The pairs of foreground voxels joined by a chain of neighbours: the reflexive
\* and transitive closure of the neighbour relation on the foreground.
RECURSIVE Chains(_, _)
Chains(R, fg) ==
    LET R2 == {p \in fg \X fg : \E b \in fg : <<p[1], b>> \in R /\ <<b, p[2]>> \in R}
    IN  IF R2 = R THEN R ELSE Chains(R2, fg)

\* The clusters of a mask: the maximal sets of foreground voxels joined by
\* chains of neighbours.
Clusters(im, connectivity) ==
    LET R == Chains({p \in im.fg \X im.fg :
                        p[1] = p[2] \/ Adjacent(p[1], p[2], connectivity)}, im.fg)
    IN  {{v \in im.fg : <<u, v>> \in R} : u \in im.fg}

Overlaps(S, T) == S \cap T /= {}

\* A finished call of compute_lesion_f1_score on two masks of one shape.
F1Done ==
    /\ pc = "done"
    /\ call.func = "compute_lesion_f1_score"
    /\ ground_truth.shape = prediction.shape

GtClusters == Clusters(ground_truth, call.connectivity)
PredClusters == Clusters(prediction, call.connectivity)

\* ------------------------------------------------------------------ C1

\* C1: on equal-shape masks, under every connectivity, each ground-truth
\* cluster is classified exactly once: tp is the number of ground-truth
\* clusters with a voxel in AND(ground_truth, prediction), fn the number of the
\* others, and tp + fn is the number of ground-truth clusters.
C1_GroundTruthClassifiedOnce ==
    F1Done =>
        LET G == GtClusters
            both == ground_truth.fg \cap prediction.fg
        IN  /\ res.tp = Cardinality({c \in G : Overlaps(c, both)})
            /\ res.fn = Cardinality({c \in G : ~Overlaps(c, both)})
            /\ res.tp + res.fn = Cardinality(G)

\* A call that found both a detected and a missed ground-truth cluster.
C1_Witness ==
    /\ F1Done
    /\ res.tp >= 1
    /\ res.fn >= 1
    /\ call.connectivity = 26

\* ------------------------------------------------------------------ C2

\* C2: on equal-shape masks fp is the number of prediction clusters with no
\* voxel in the ground-truth mask; the prediction clusters that overlap the
\* ground truth are the others and add to neither count, tp being the number
\* of ground-truth clusters overlapped, however many prediction clusters
\* overlap each.
C2_FalsePositives ==
    F1Done =>
        LET G == GtClusters
            P == PredClusters
        IN  /\ res.fp = Cardinality({c \in P : ~Overlaps(c, ground_truth.fg)})
            /\ Cardinality({c \in P : Overlaps(c, ground_truth.fg)}) + res.fp
                  = Cardinality(P)
            /\ res.tp = Cardinality({g \in G : \E c \in P : Overlaps(c, g)})

\* Two prediction clusters overlap one ground-truth cluster, and tp is 1.
C2_Witness ==
    /\ F1Done
    /\ res.tp = 1
    /\ res.fp = 0
    /\ LET P == PredClusters
       IN  \E g \in GtClusters : Cardinality({c \in P : Overlaps(c, g)}) >= 2

\* ------------------------------------------------------------------ C3

\* C3: on equal-shape masks, under every connectivity, tp + fp + fn = 0 exactly
\* when neither the ground truth nor the prediction has a cluster.
C3_ZeroCountsIffNoClusters ==
    F1Done =>
        ((res.tp + res.fp + res.fn = 0)
            <=> (GtClusters = {} /\ PredClusters = {}))

\* A call on two empty masks, whose counts are all 0.
C3_Witness ==
    /\ F1Done
    /\ ground_truth.fg = {}
    /\ prediction.fg = {}
    /\ res.tp + res.fp + res.fn = 0

\* ------------------------------------------------------------------ C4

\* C4: when ground_truth and prediction have different shapes,
\* compute_lesion_f1_score fails with a shape error and produces no counts and
\* no score, also when the shapes differ only in axes of length 1.
C4_ShapeMismatchFails ==
    (/\ pc = "done"
     /\ call.func = "compute_lesion_f1_score"
     /\ ground_truth.shape /= prediction.shape)
        => (res.exc = "ValueError" /\ res.value = NoValue)

\* ------------------------------------------------------------------ C5

AvdDone ==
    /\ pc = "done"
    /\ call.func = "compute_absolute_volume_difference"

C6_SelfScoreIsOne ==
    (F1Done /\ ground_truth = prediction /\ ground_truth.fg /= {}) =>
        /\ res.exc = "none"
        /\ res.value = RInt(1)
        /\ res.tp = Cardinality(GtClusters)
        /\ res.fp = 0
        /\ res.fn = 0

\* A mask of two clusters scored against itself.
C6_Witness ==
    /\ F1Done
    /\ ground_truth = prediction
    /\ Cardinality(GtClusters) = 2
    /\ res.value = RInt(1)

\* ------------------------------------------------------------------ C7

BothEmpty == ground_truth.fg = {} /\ prediction.fg = {}

\* C7 as claimed: on two masks without foreground compute_lesion_f1_score
\* returns the caller's empty_value, and it returns empty_value in that case
\* only.
C7_EmptyValueOnlyWhenEmpty ==
    F1Done =>
        /\ BothEmpty => (res.exc = "none" /\ res.value = call.empty_value)
        /\ (res.exc = "none" /\ res.value = call.empty_value) => BothEmpty

\* C7 as amended: on two masks without foreground compute_lesion_f1_score
\* returns the caller's empty_value, under every connectivity; on any other
\* pair it returns the ratio tp / (tp + (fp + fn) / 2) of counts that are not
\* all 0 (a ratio that can itself equal empty_value).
C7_EmptyValueWhenEmpty ==
    F1Done =>
        /\ res.exc = "none"
        /\ BothEmpty => res.value = call.empty_value
        /\ ~BothEmpty =>
              /\ res.tp + res.fp + res.fn > 0
              /\ res.value = Rat(2 * res.tp, 2 * res.tp + res.fp + res.fn)

\* Two empty masks scored with an empty_value that is not the default.
C7_Witness ==
    /\ F1Done
    /\ BothEmpty
    /\ call.empty_value /= DefaultEmptyValue
    /\ res.value = call.empty_value

\* ------------------------------------------------------------------ C8

\* C8: compute_number_of_clusters returns the number of maximal sets of
\* connected foreground voxels; here on a one-row image, where they are the
\* runs of foreground voxels.
C8_CountsClusters ==
    (pc = "done" /\ call.func = "compute_number_of_clusters" /\ scan.len > 0)
        => res.value = RInt(RowClusters(scan.len, scan.period))

\* The same on the small masks: the count is the number of clusters, 0 for an
\* empty mask and 1 for a single voxel, and two voxels that touch only at an
\* edge or a corner are 2 clusters under connectivity 6 and 1 under 26.
ClusterCountOnSmallMasks ==
    (pc = "done" /\ call.func = "compute_number_of_clusters"
                 /\ scan = NoScan) =>
        /\ res.value = RInt(Cardinality(GtClusters))
        /\ ground_truth.fg = {} => res.value = RInt(0)
        /\ Cardinality(ground_truth.fg) = 1 => res.value = RInt(1)
        /\ \A u \in ground_truth.fg, v \in ground_truth.fg :
              (/\ ground_truth.fg = {u, v}
               /\ Abs(u[1] - v[1]) + Abs(u[2] - v[2]) + Abs(u[3] - v[3]) >= 2
               /\ \A i \in 1 .. 3 : Abs(u[i] - v[i]) <= 1)
                  => (/\ call.connectivity = 6 => res.value = RInt(2)
                      /\ call.connectivity = 26 => res.value = RInt(1))

\* ------------------------------------------------------------------ C9

\* C9: compute_dice is symmetric: on every pair of masks and for every
\* empty_value, the call leaves what the call with the masks exchanged leaves,
\* the case of two empty masks included.
C9_DiceSymmetric ==
    (pc = "done" /\ call.func = "compute_dice") =>
        res = compute_dice(prediction, ground_truth, call.empty_value)

\* A call on two overlapping masks of one shape with different voxel counts.
C9_Witness ==
    /\ pc = "done"
    /\ call.func = "compute_dice"
    /\ ground_truth.shape = prediction.shape
    /\ Sum(ground_truth) < Sum(prediction)
    /\ Overlaps(ground_truth.fg, prediction.fg)
    /\ res.exc = "none"

\* ------------------------------------------------------------------ C10

\* C10: f1_score is assigned whenever compute_lesion_f1_score reaches its
\* return statement: no call ends with tp + fp + fn = 0 while
\* compute_number_of_clusters(ground_truth), under its default connectivity 26,
\* is not 0, so the return never raises for an unassigned f1_score.
C10_ScoreAssigned ==
    (pc = "done" /\ call.func = "compute_lesion_f1_score"
                 /\ res.exc /= "ValueError") =>
        /\ res.exc /= "UnboundLocalError"
        /\ res.value /= NoValue
        /\ ~(/\ res.tp + res.fp + res.fn = 0
             /\ compute_number_of_clusters(ground_truth, DefaultConnectivity) /= 0)

\* A call under connectivity 6 that takes the branch without an alternative.
C10_Witness ==
    /\ F1Done
    /\ call.connectivity = 6
    /\ res.tp + res.fp + res.fn = 0
    /\ res.value = call.empty_value

====
